---- MODULE Spec2Model ----
(***************************************************************************)
(* Model of the two adapters of audacious-plugins:                         *)
(*   - the UNIX transport plugin (src/unix-io/unix-io.c): one VFSFile      *)
(*     wrapping one file descriptor on one file of the file system;        *)
(*   - the playlist tree-view helpers (playlist_util.c): one tree view     *)
(*     showing one playlist of the host.                                   *)
(* The two adapters share no state; SpecIO and SpecView are their          *)
(* specifications.                                                         *)
(***************************************************************************)
EXTENDS Integers, Sequences, FiniteSets, TLC

(* ---------------------------------------------------------------- bounds *)
\* largest file offset / file length the modelled file system accepts
MaxOff == 3
\* largest element size and element count passed to fread / fwrite
MaxSize == 3
\* width of gint (32 in the build), scaled down so that size * nitems wraps
IntBits == 3
\* width of size_t (64 in the build), scaled down likewise
SizeBits == 5
\* largest number of rows of the playlist
MaxRows == 3

(* ------------------------------------------------------------- variables *)
VARIABLES
    exists,     \* the file named by the URI exists on disk
    flen,       \* its length in bytes
    handle,     \* file->handle: the descriptor wrapped by the VFSFile, or NoHandle
    oflags,     \* the flags the descriptor was opened with
    pos,        \* the descriptor's file offset
    pc,         \* "idle", or the transfer loop the caller is inside
    xf,         \* locals of the running unix_fread / unix_fwrite
    oscalls,    \* the OS calls made by the last operation, in order
    last,       \* the last completed operation: name, arguments, result
    prev,       \* the operation completed before it
    psel,       \* playlist: the host's selected flag of each entry
    pending,    \* aud_playlist_update_pending ()
    vsel,       \* tree view: the set of selected rows
    cursor,     \* tree view: the cursor row, or -1
    model,      \* UiPlaylistModel: focus_changed, focus, selection_changed
    blocked,    \* the widget's updates are blocked
    vcalls,     \* the widget calls made by the last view operation, in order
    vlast       \* the last completed view operation

iovars == <<exists, flen, handle, oflags, pos, pc, xf, oscalls, last, prev>>
viewvars == <<psel, pending, vsel, cursor, model, blocked, vcalls, vlast>>
vars == <<iovars, viewvars>>

(* --------------------------------------------------------------- helpers *)
Min(a, b) == IF a < b THEN a ELSE b
Max(a, b) == IF a > b THEN a ELSE b
Pow2(n) == 2 ^ n
Range(s) == {s[i] : i \in 1..Len(s)}

NoHandle == -1
EOF == -1
NULL == "NULL"
NoOp == [op |-> "none"]
NoXfer == [size |-> 0, nitems |-> 0, goal |-> 0, total |-> 0, os |-> 0,
           r |-> 0, n |-> 0]

\* conversion of an unsigned value to size_t and of a size_t to gint
ToSizeT(x) == x % Pow2(SizeBits)
ToGint(x) ==
    LET m == x % Pow2(IntBits)
    IN  IF m >= Pow2(IntBits - 1) THEN m - Pow2(IntBits) ELSE m

\* what the next operation remembers of the one before it: a unix_truncate
\* that returned TRUE, with its argument and the position it started from
Brief(l) ==
    IF l.op = "truncate" /\ l.ret
    THEN [op |-> l.op, length |-> l.length, pos0 |-> l.pos0]
    ELSE NoOp

(* ------------------------------------------------------------ unix_fopen *)
\* mode strings, as sequences of characters
Modes ==
    { <<"r">>, <<"r", "+">>, <<"w">>, <<"w", "+">>, <<"a">>, <<"a", "+">>,
      <<"r", "b">>, <<"r", "b", "+">>, <<"w", "b", "+">>, <<"a", "+", "b">>,
      << >>, <<"+">>, <<"+", "r">>, <<"b">>, <<"x", "+">> }
\* mode[0]; the terminating NUL for the empty string
FirstChar(mode) == IF Len(mode) = 0 THEN "NUL" ELSE mode[1]

URIs == { [scheme |-> "file", path |-> "/f"], [scheme |-> "http", path |-> "/f"] }
g_filename_from_uri(uri) == IF uri.scheme = "file" THEN uri.path ELSE NULL

AccessOf(flags) == flags \cap {"O_RDONLY", "O_WRONLY", "O_RDWR"}

mode_flag_plusfirst(mode) ==
    LET update == Len(mode) >= 2 /\ mode[2] = "+"
    IN  CASE FirstChar(mode) = "r" ->
               IF update THEN {"O_RDWR"} ELSE {"O_RDONLY"}
          [] FirstChar(mode) = "w" ->
               (IF update THEN {"O_RDWR"} ELSE {"O_WRONLY"}) \cup {"O_CREAT", "O_TRUNC"}
          [] FirstChar(mode) = "a" ->
               (IF update THEN {"O_RDWR"} ELSE {"O_WRONLY"}) \cup {"O_CREAT", "O_APPEND"}
          [] OTHER -> {}

\* the switch on mode[0]; the empty set stands for the default branch's return
\* (every flag word the other branches build names an access mode)
mode_flag(mode) ==
    LET update == "+" \in Range(mode)
    IN  CASE FirstChar(mode) = "r" ->
               IF update THEN {"O_RDWR"} ELSE {"O_RDONLY"}
          [] FirstChar(mode) = "w" ->
               (IF update THEN {"O_RDWR"} ELSE {"O_WRONLY"}) \cup {"O_CREAT", "O_TRUNC"}
          [] FirstChar(mode) = "a" ->
               (IF update THEN {"O_RDWR"} ELSE {"O_WRONLY"}) \cup {"O_CREAT", "O_APPEND"}
          [] OTHER -> {}

\* open (2): the descriptors it may return; it fails when the file is missing
\* and O_CREAT is not given, and may fail for any other reason
OpenOutcomes(flags) ==
    IF ~exists /\ "O_CREAT" \notin flags THEN {-1} ELSE {-1, 3}

unix_fopen ==
    /\ pc = "idle"
    /\ handle = NoHandle
    /\ \E uri \in URIs, mode \in Modes :
         LET mf == mode_flag(mode)
             filename == g_filename_from_uri(uri)
         IN  IF mf = {} \/ filename = NULL
             THEN /\ oscalls' = << >>
                  /\ last' = [op |-> "fopen", uri |-> uri, mode |-> mode, ret |-> NULL]
                  /\ UNCHANGED <<exists, flen, handle, oflags, pos>>
             ELSE \E fd \in OpenOutcomes(mf) :
                    IF fd = -1
                    THEN /\ oscalls' = << [call |-> "open", flags |-> mf,
                                           perm |-> "O_CREAT" \in mf, ret |-> fd] >>
                         /\ last' = [op |-> "fopen", uri |-> uri, mode |-> mode, ret |-> NULL]
                         /\ UNCHANGED <<exists, flen, handle, oflags, pos>>
                    ELSE /\ oscalls' = << [call |-> "open", flags |-> mf,
                                           perm |-> "O_CREAT" \in mf, ret |-> fd],
                                          [call |-> "fcntl", ret |-> 0] >>
                         /\ last' = [op |-> "fopen", uri |-> uri, mode |-> mode, ret |-> "file"]
                         /\ exists' = TRUE
                         /\ flen' = IF exists /\ "O_TRUNC" \notin mf THEN flen ELSE 0
                         /\ handle' = fd
                         /\ oflags' = mf
                         /\ pos' = 0
    /\ prev' = Brief(last)
    /\ UNCHANGED <<pc, xf, viewvars>>

(* ----------------------------------------------------------- unix_fclose *)
\* the calls and the result of unix_fclose, given fsync's result
fclose_leak(syncret) ==
    IF syncret = -1
    THEN [calls |-> << [call |-> "fsync", ret |-> syncret] >>, ret |-> EOF,
          closed |-> FALSE]
    ELSE [calls |-> << [call |-> "fsync", ret |-> syncret],
                       [call |-> "close", ret |-> 0] >>, ret |-> 0,
          closed |-> TRUE]

fclose_run(syncret) ==
    LET result == IF syncret = -1 THEN EOF ELSE 0
    IN  [calls |-> << [call |-> "fsync", ret |-> syncret],
                      [call |-> "close", ret |-> 0] >>,
         ret |-> result, closed |-> TRUE]

unix_fclose ==
    /\ pc = "idle"
    /\ handle # NoHandle
    /\ \E syncret \in {0, -1} :
         LET r == fclose_run(syncret)
         IN  /\ oscalls' = r.calls
             /\ last' = [op |-> "fclose", sync |-> syncret, ret |-> r.ret]
             /\ handle' = IF r.closed THEN NoHandle ELSE handle
    /\ prev' = Brief(last)
    /\ UNCHANGED <<exists, flen, oflags, pos, pc, xf, viewvars>>

(* ------------------------------------------------- the OS calls on the fd *)
\* read (2) of count > 0 bytes at offset p: the byte counts it may return
ReadOutcomes(p, count) ==
    IF AccessOf(oflags) = {"O_WRONLY"}
    THEN {-1}
    ELSE {-1} \cup (IF p >= flen THEN {0} ELSE 1..Min(count, flen - p))

\* the offset a write (2) starts at
WriteAt(p) == IF "O_APPEND" \in oflags THEN flen ELSE p

\* write (2) of count > 0 bytes: the byte counts it may return
WriteOutcomes(p, count) ==
    IF AccessOf(oflags) = {"O_RDONLY"}
    THEN {-1}
    ELSE {-1} \cup 0..Min(count, MaxOff - WriteAt(p))

\* lseek (2) from offset p on a file of length len: the new offset, or -1
\* when the OS refuses (ok = FALSE) or the target is out of range
lseek(p, len, offset, whence, ok) ==
    LET target == CASE whence = "SEEK_SET" -> offset
                    [] whence = "SEEK_CUR" -> p + offset
                    [] whence = "SEEK_END" -> len + offset
    IN  IF ok /\ target \in 0..MaxOff THEN target ELSE -1

LseekCall(offset, whence, r) ==
    [call |-> "lseek", offset |-> offset, whence |-> whence, ret |-> r]

(* ---------------------------------------------- unix_fread / unix_fwrite *)
Sizes == 0..MaxSize \cup {Pow2(SizeBits - 1)}

\* gint goal = size * nitems
xfer_goal(size, nitems) == ToGint(ToSizeT(size * nitems))

xfer_result_bytes(total, size) == ToSizeT(total)

\* return (size > 0) ? total / size : 0
xfer_result(total, size) == IF size > 0 THEN ToSizeT(total) \div size ELSE 0

\* one iteration of unix_fread's loop, after read () returned readed
fread_iter(total, readed) ==
    IF readed = -1 THEN [total |-> total, brk |-> TRUE]
    ELSE IF readed = 0 THEN [total |-> total, brk |-> TRUE]
    ELSE [total |-> total + readed, brk |-> FALSE]

\* one iteration of unix_fwrite's loop, after write () returned written
fwrite_iter(total, written) ==
    IF written = -1 THEN [total |-> total, brk |-> TRUE]
    ELSE [total |-> total + written, brk |-> FALSE]

\* leaving unix_fread / unix_fwrite
XferReturn(op, x) ==
    /\ pc' = "idle"
    /\ xf' = NoXfer
    /\ oscalls' = << >>
    /\ last' = [op |-> op, size |-> x.size, nitems |-> x.nitems,
                ret |-> xfer_result(x.total, x.size), os |-> x.os, n |-> x.n]

\* entering unix_fread / unix_fwrite: the locals, and the first test of the loop
XferCall(op) ==
    /\ \E size \in Sizes, nitems \in Sizes :
         LET x == [size |-> size, nitems |-> nitems,
                   goal |-> xfer_goal(size, nitems), total |-> 0, os |-> 0,
                   r |-> 0, n |-> 0]
         IN  IF x.total < x.goal
             THEN /\ pc' = op
                  /\ xf' = x
                  /\ oscalls' = << >>
                  /\ last' = [op |-> op]
             ELSE XferReturn(op, x)
    /\ prev' = Brief(last)
    /\ UNCHANGED <<exists, flen, handle, oflags, pos, viewvars>>

unix_fread ==
    /\ pc = "idle"
    /\ handle # NoHandle
    /\ XferCall("fread")

unix_fwrite ==
    /\ pc = "idle"
    /\ handle # NoHandle
    /\ XferCall("fwrite")

\* the rest of an iteration: the loop's test, or the break
XferNext(op, x, it) ==
    LET y == [x EXCEPT !.total = it.total]
    IN  IF ~it.brk /\ y.total < y.goal
        THEN /\ xf' = y
             /\ UNCHANGED <<pc, oscalls, last>>
        ELSE XferReturn(op, y)

unix_fread_loop ==
    /\ pc = "fread"
    /\ \E readed \in ReadOutcomes(pos, xf.goal - xf.total) :
         /\ pos' = IF readed > 0 THEN pos + readed ELSE pos
         /\ XferNext("fread", [xf EXCEPT !.r = readed, !.n = 1,
                                         !.os = @ + Max(readed, 0)],
                     fread_iter(xf.total, readed))
    /\ UNCHANGED <<exists, flen, handle, oflags, prev, viewvars>>

unix_fwrite_loop ==
    /\ pc = "fwrite"
    /\ \E written \in WriteOutcomes(pos, xf.goal - xf.total) :
         /\ pos' = IF written > 0 THEN WriteAt(pos) + written ELSE pos
         /\ flen' = IF written > 0 THEN Max(flen, WriteAt(pos) + written) ELSE flen
         /\ XferNext("fwrite", [xf EXCEPT !.r = written, !.n = 1,
                                          !.os = @ + Max(written, 0)],
                     fwrite_iter(xf.total, written))
    /\ UNCHANGED <<exists, handle, oflags, prev, viewvars>>

(* ---------------------------------------------- unix_fseek / unix_ftell *)
\* unix_fseek, given lseek's result r: its return value and the new offset
fseek(p, r) == [ret |-> IF r = -1 THEN -1 ELSE 0, pos |-> IF r = -1 THEN p ELSE r]

Whences == {"SEEK_SET", "SEEK_CUR", "SEEK_END"}

\* completion of an operation that runs in one step
Done(l, calls) ==
    /\ last' = l
    /\ prev' = Brief(last)
    /\ oscalls' = calls
    /\ UNCHANGED <<pc, xf, viewvars>>

unix_fseek ==
    /\ pc = "idle"
    /\ handle # NoHandle
    /\ \E offset \in -1..MaxOff, whence \in Whences, ok \in BOOLEAN :
         LET r == lseek(pos, flen, offset, whence, ok)
             f == fseek(pos, r)
         IN  /\ pos' = f.pos
             /\ Done([op |-> "fseek", ret |-> f.ret],
                     << LseekCall(offset, whence, r) >>)
    /\ UNCHANGED <<exists, flen, handle, oflags>>

unix_ftell ==
    /\ pc = "idle"
    /\ handle # NoHandle
    /\ \E ok \in BOOLEAN :
         LET result == lseek(pos, flen, 0, "SEEK_CUR", ok)
         IN  Done([op |-> "ftell", ret |-> result],
                  << LseekCall(0, "SEEK_CUR", result) >>)
    /\ UNCHANGED <<exists, flen, handle, oflags, pos>>

unix_rewind ==
    /\ pc = "idle"
    /\ handle # NoHandle
    /\ \E ok \in BOOLEAN :
         LET r == lseek(pos, flen, 0, "SEEK_SET", ok)
         IN  /\ pos' = fseek(pos, r).pos
             /\ Done([op |-> "rewind"],
                     << LseekCall(0, "SEEK_SET", r) >>)
    /\ UNCHANGED <<exists, flen, handle, oflags>>

(* ------------------------------------- unix_getc / unix_ungetc / unix_feof *)
\* the values of a byte of the file, as guchar
Bytes == {0, 255}

\* unix_fread (& c, 1, 1, file), given read's result: goal is 1, so the loop
\* runs one iteration
fread1(readed) == xfer_result(fread_iter(0, readed).total, 1)

\* unix_getc, given read's result and the byte read
getc(readed, c) == IF fread1(readed) = 1 THEN c ELSE EOF

\* unix_ungetc, given lseek's result
ungetc(c, p, r) == IF fseek(p, r).ret = 0 THEN c ELSE EOF

ReadCall(count, r) == [call |-> "read", count |-> count, ret |-> r]

unix_getc ==
    /\ pc = "idle"
    /\ handle # NoHandle
    /\ \E readed \in ReadOutcomes(pos, 1), c \in Bytes :
         /\ pos' = IF readed > 0 THEN pos + readed ELSE pos
         /\ Done([op |-> "getc", ret |-> getc(readed, c)],
                 << ReadCall(1, readed) >>)
    /\ UNCHANGED <<exists, flen, handle, oflags>>

unix_ungetc ==
    /\ pc = "idle"
    /\ handle # NoHandle
    /\ \E c \in Bytes, ok \in BOOLEAN :
         LET r == lseek(pos, flen, -1, "SEEK_CUR", ok)
         IN  /\ pos' = fseek(pos, r).pos
             /\ Done([op |-> "ungetc", ret |-> ungetc(c, pos, r)],
                     << LseekCall(-1, "SEEK_CUR", r) >>)
    /\ UNCHANGED <<exists, flen, handle, oflags>>

unix_feof ==
    /\ pc = "idle"
    /\ handle # NoHandle
    /\ \E readed \in ReadOutcomes(pos, 1), c \in Bytes, ok \in BOOLEAN :
         LET test == getc(readed, c)
             p1 == IF readed > 0 THEN pos + readed ELSE pos
             r == lseek(p1, flen, -1, "SEEK_CUR", ok)
         IN  IF test = EOF
             THEN /\ pos' = p1
                  /\ Done([op |-> "feof", ret |-> TRUE, pos0 |-> pos,
                           atend |-> (pos >= flen)],
                          << ReadCall(1, readed) >>)
             ELSE /\ pos' = fseek(p1, r).pos
                  /\ Done([op |-> "feof", ret |-> FALSE, pos0 |-> pos,
                           atend |-> (pos >= flen)],
                          << ReadCall(1, readed), LseekCall(-1, "SEEK_CUR", r) >>)
    /\ UNCHANGED <<exists, flen, handle, oflags>>

(* ----------------------------------------- unix_truncate / unix_fsize *)
\* ftruncate (2): 0 and the new length, or -1
ftruncate(len, length, ok) ==
    IF ok /\ length \in 0..MaxOff /\ AccessOf(oflags) # {"O_RDONLY"}
    THEN [ret |-> 0, len |-> length]
    ELSE [ret |-> -1, len |-> len]

unix_truncate ==
    /\ pc = "idle"
    /\ handle # NoHandle
    /\ \E length \in -1..MaxOff, ok \in BOOLEAN :
         LET t == ftruncate(flen, length, ok)
         IN  /\ flen' = t.len
             /\ Done([op |-> "truncate", length |-> length,
                      ret |-> (t.ret # -1), pos0 |-> pos],
                     << [call |-> "ftruncate", length |-> length, ret |-> t.ret] >>)
    /\ UNCHANGED <<exists, handle, oflags, pos>>

\* unix_fsize without the final seek back
fsize_noseekback(p, len, ok) ==
    LET position == lseek(p, len, 0, "SEEK_CUR", ok[1])
        s2 == lseek(p, len, 0, "SEEK_END", ok[2])
        p2 == fseek(p, s2).pos
        length == lseek(p2, len, 0, "SEEK_CUR", ok[3])
    IN  IF position = -1
        THEN [ret |-> -1, pos |-> p,
              calls |-> << LseekCall(0, "SEEK_CUR", position) >>]
        ELSE [ret |-> length, pos |-> p2,
              calls |-> << LseekCall(0, "SEEK_CUR", position),
                           LseekCall(0, "SEEK_END", s2),
                           LseekCall(0, "SEEK_CUR", length) >>]

\* unix_fsize from offset p on a file of length len; ok[i] tells whether the
\* OS lets the i-th lseek succeed
fsize(p, len, ok) ==
    LET position == lseek(p, len, 0, "SEEK_CUR", ok[1])
        s2 == lseek(p, len, 0, "SEEK_END", ok[2])
        p2 == fseek(p, s2).pos
        length == lseek(p2, len, 0, "SEEK_CUR", ok[3])
        s4 == lseek(p2, len, position, "SEEK_SET", ok[4])
        p4 == fseek(p2, s4).pos
    IN  IF position = -1
        THEN [ret |-> -1, pos |-> p,
              calls |-> << LseekCall(0, "SEEK_CUR", position) >>]
        ELSE IF length = -1
        THEN [ret |-> -1, pos |-> p2,
              calls |-> << LseekCall(0, "SEEK_CUR", position),
                           LseekCall(0, "SEEK_END", s2),
                           LseekCall(0, "SEEK_CUR", length) >>]
        ELSE [ret |-> length, pos |-> p4,
              calls |-> << LseekCall(0, "SEEK_CUR", position),
                           LseekCall(0, "SEEK_END", s2),
                           LseekCall(0, "SEEK_CUR", length),
                           LseekCall(position, "SEEK_SET", s4) >>]

unix_fsize ==
    /\ pc = "idle"
    /\ handle # NoHandle
    /\ \E ok \in [1..4 -> BOOLEAN] :
         LET f == fsize(pos, flen, ok)
         IN  /\ pos' = f.pos
             /\ Done([op |-> "fsize", ret |-> f.ret, pos0 |-> pos], f.calls)
    /\ UNCHANGED <<exists, flen, handle, oflags>>

(* ------------------------------------------------- the transport plugin *)
InitIO ==
    /\ exists \in BOOLEAN
    /\ flen \in 0..MaxOff
    /\ (~exists => flen = 0)
    /\ handle = NoHandle
    /\ oflags = {}
    /\ pos = 0
    /\ pc = "idle"
    /\ xf = NoXfer
    /\ oscalls = << >>
    /\ last = NoOp
    /\ prev = NoOp
    /\ psel = << >>
    /\ pending = FALSE
    /\ vsel = {}
    /\ cursor = -1
    /\ model = [focus_changed |-> FALSE, focus |-> -1, selection_changed |-> FALSE]
    /\ blocked = FALSE
    /\ vcalls = << >>
    /\ vlast = NoOp

NextIO ==
    \/ unix_fopen
    \/ unix_fclose
    \/ unix_fread
    \/ unix_fread_loop
    \/ unix_fwrite
    \/ unix_fwrite_loop
    \/ unix_fseek
    \/ unix_ftell
    \/ unix_getc
    \/ unix_ungetc
    \/ unix_rewind
    \/ unix_feof
    \/ unix_truncate
    \/ unix_fsize

SpecIO == InitIO /\ [][NextIO]_vars

(* ------------------------------------------------------- the tree view *)
\* The view is the record [sel, cursor, model, blocked, calls]: the selected
\* rows, the cursor row (-1: none), the UiPlaylistModel's deferred-update
\* fields, whether the widget's updates are blocked, and the toolkit and
\* widget calls made so far by the running operation.  The tree model has one
\* row per playlist entry; ps is the sequence of the entries' selected flags
\* (entry i is ps[i + 1]).
View == [sel |-> vsel, cursor |-> cursor, model |-> model, blocked |-> blocked,
         calls |-> << >>]

Rows(ps) == 0..(Len(ps) - 1)

Logged(v, c) == [v EXCEPT !.calls = Append(@, c)]

\* gtk_tree_view_set_cursor on a flat row: the cursor moves there and the
\* row becomes the whole selection; a row the model does not have only
\* clears the cursor
gtk_tree_view_set_cursor(v, row, ps) ==
    LET w == Logged(v, [call |-> "set_cursor", row |-> row])
    IN  IF row \in Rows(ps)
        THEN [w EXCEPT !.sel = {row}, !.cursor = row]
        ELSE [w EXCEPT !.cursor = -1]

\* gtk_tree_selection_select_path / select_iter: rows the model does not
\* have are ignored
gtk_tree_selection_select(v, row, ps) ==
    LET w == Logged(v, [call |-> "select", row |-> row])
    IN  IF row \in Rows(ps) THEN [w EXCEPT !.sel = @ \cup {row}] ELSE w

gtk_tree_selection_unselect(v, row, ps) ==
    LET w == Logged(v, [call |-> "unselect", row |-> row])
    IN  [w EXCEPT !.sel = @ \ {row}]

gtk_tree_selection_unselect_all(v) ==
    [Logged(v, [call |-> "unselect_all"]) EXCEPT !.sel = {}]

\* ui_playlist_widget_block_updates (tree, block)
ui_playlist_widget_block_updates(v, block) ==
    [Logged(v, [call |-> "block_updates", block |-> block]) EXCEPT !.blocked = block]

\* the loop of treeview_refresh_selection_now from row count on; the iter
\* is at row count
RECURSIVE refresh_loop_selectonly(_, _, _)
refresh_loop_selectonly(v, ps, count) ==
    IF count >= Len(ps)
    THEN v
    ELSE refresh_loop_selectonly(
             IF ps[count + 1]
             THEN gtk_tree_selection_select(v, count, ps)
             ELSE v,
             ps, count + 1)

RECURSIVE refresh_loop(_, _, _)
refresh_loop(v, ps, count) ==
    IF count >= Len(ps)
    THEN v
    ELSE refresh_loop(
             IF ps[count + 1]
             THEN gtk_tree_selection_select(v, count, ps)
             ELSE gtk_tree_selection_unselect(v, count, ps),
             ps, count + 1)

refresh_selection_now(v, ps) ==
    LET entries == Len(ps)
    IN  IF entries = 0 THEN v ELSE refresh_loop(v, ps, 0)

set_focus_now(v, focus, ps) ==
    IF focus < 0 /\ Len(ps) = 0
    THEN v
    ELSE LET f == IF focus < 0 THEN 0 ELSE focus
             c == gtk_tree_view_set_cursor(v, f, ps)
             s == Logged(c, [call |-> "scroll_to_cell", row |-> f])
         IN  refresh_selection_now(s, ps)

set_focus_noblock(v, focus, ps, pend) ==
    IF pend
    THEN [v EXCEPT !.model.focus_changed = TRUE, !.model.focus = focus]
    ELSE set_focus_now(v, focus, ps)

set_focus(v, focus, ps, pend) ==
    IF pend
    THEN [v EXCEPT !.model.focus_changed = TRUE, !.model.focus = focus]
    ELSE ui_playlist_widget_block_updates(
             set_focus_now(ui_playlist_widget_block_updates(v, TRUE), focus, ps),
             FALSE)

refresh_selection(v, ps, pend) ==
    IF pend
    THEN [v EXCEPT !.model.selection_changed = TRUE]
    ELSE ui_playlist_widget_block_updates(
             refresh_selection_now(ui_playlist_widget_block_updates(v, TRUE), ps),
             FALSE)

\* completion of a view operation that leaves the view as v
ViewDone(l, v) ==
    /\ vsel' = v.sel
    /\ cursor' = v.cursor
    /\ model' = v.model
    /\ blocked' = v.blocked
    /\ vcalls' = v.calls
    /\ vlast' = l
    /\ UNCHANGED iovars

\* the rows a caller may name: those of the playlist, and one past the end
Focuses == -1..Len(psel)

treeview_get_focus ==
    /\ ViewDone([op |-> "get_focus", ret |-> cursor], View)
    /\ UNCHANGED <<psel, pending>>

treeview_set_focus ==
    /\ \E focus \in Focuses :
         ViewDone([op |-> "set_focus", focus |-> focus, pending |-> pending],
                  set_focus(View, focus, psel, pending))
    /\ UNCHANGED <<psel, pending>>

treeview_set_focus_now ==
    /\ \E focus \in Focuses :
         ViewDone([op |-> "set_focus_now", focus |-> focus, pending |-> pending],
                  set_focus_now(View, focus, psel))
    /\ UNCHANGED <<psel, pending>>

treeview_refresh_selection ==
    /\ ViewDone([op |-> "refresh_selection", pending |-> pending],
                refresh_selection(View, psel, pending))
    /\ UNCHANGED <<psel, pending>>

treeview_refresh_selection_now ==
    /\ ViewDone([op |-> "refresh_selection_now", pending |-> pending],
                refresh_selection_now(View, psel))
    /\ UNCHANGED <<psel, pending>>

playlist_set_selected ==
    /\ \E row \in Rows(psel) :
         ViewDone([op |-> "set_selected", row |-> row],
                  gtk_tree_view_set_cursor(
                      gtk_tree_selection_select(
                          gtk_tree_selection_unselect_all(View), row, psel),
                      row, psel))
    /\ UNCHANGED <<psel, pending>>

\* the loop of playlist_set_selected_list for distance # 0, from the i-th
\* element of the list on
RECURSIVE set_selected_list_loop(_, _, _, _, _)
set_selected_list_loop(v, list, distance, ps, i) ==
    IF i > Len(list)
    THEN v
    ELSE LET p == list[i] + distance
             s == gtk_tree_selection_select(v, p, ps)
             c == IF i = 1 THEN gtk_tree_view_set_cursor(s, p, ps) ELSE s
         IN  set_selected_list_loop(c, list, distance, ps, i + 1)

RECURSIVE select_each(_, _, _, _)
select_each(v, list, ps, i) ==
    IF i > Len(list)
    THEN v
    ELSE select_each(gtk_tree_selection_select(v, list[i], ps), list, ps, i + 1)

set_selected_list(v, list, distance, ps) ==
    LET u == gtk_tree_selection_unselect_all(v)
    IN  IF distance = 0
        THEN select_each(gtk_tree_view_set_cursor(u, list[1], ps), list, ps, 1)
        ELSE set_selected_list_loop(u, list, distance, ps, 1)

\* the non-empty lists of rows in ascending order, as
\* playlist_get_selected_list returns them
RowLists(ps) ==
    { l \in UNION { [1..k -> Rows(ps)] : k \in 1..Len(ps) } :
        \A i \in 1..(Len(l) - 1) : l[i] < l[i + 1] }

playlist_set_selected_list ==
    /\ \E list \in RowLists(psel), distance \in {-1, 0, 1} :
         ViewDone([op |-> "set_selected_list"],
                  set_selected_list(View, list, distance, psel))
    /\ UNCHANGED <<psel, pending>>

\* aud_playlist_select_all (list, FALSE), then aud_playlist_entry_set_selected
\* (list, top + count, TRUE) for count < length
select_range(ps, top, length) ==
    [i \in 1..Len(ps) |-> (i - 1) \in top..(top + length - 1)]

playlist_select_range ==
    /\ \E top \in Rows(psel), length \in 0..Len(psel) :
         /\ top + length <= Len(psel)
         /\ psel' = select_range(psel, top, length)
         /\ ViewDone([op |-> "select_range"], View)
    /\ UNCHANGED pending

RECURSIVE count_selected_in_range(_, _, _)
count_selected_in_range(ps, top, length) ==
    IF length <= 0
    THEN 0
    ELSE count_selected_in_range(ps, top, length - 1)
         + (IF ps[top + length] THEN 1 ELSE 0)

playlist_count_selected_in_range ==
    /\ \E top \in Rows(psel), length \in 0..Len(psel) :
         /\ top + length <= Len(psel)
         /\ ViewDone([op |-> "count_selected_in_range",
                      ret |-> count_selected_in_range(psel, top, length)], View)
    /\ UNCHANGED <<psel, pending>>

playlist_scroll_to_row ==
    /\ \E row \in Rows(psel) :
         LET ps == select_range(psel, row, 1)
         IN  /\ psel' = ps
             /\ ViewDone([op |-> "scroll_to_row", focus |-> row, pending |-> pending],
                         set_focus(View, row, ps, pending))
    /\ UNCHANGED pending

\* the host queues a playlist update: aud_playlist_update_pending () turns true
update_pending_begins ==
    /\ ~pending
    /\ pending' = TRUE
    /\ ViewDone([op |-> "update_pending"], View)
    /\ UNCHANGED psel

\* the update settles: the deferred focus and selection changes are applied
\* and the flags cleared
ui_playlist_model_update_settled ==
    /\ pending
    /\ pending' = FALSE
    /\ LET c == [View EXCEPT !.model.focus_changed = FALSE,
                             !.model.selection_changed = FALSE]
           f == IF model.focus_changed THEN set_focus_now(c, model.focus, psel) ELSE c
           r == IF model.selection_changed THEN refresh_selection_now(f, psel) ELSE f
       IN  ViewDone([op |-> "update_settled"], r)
    /\ UNCHANGED psel

Flags(n) == [1..n -> BOOLEAN]

InitView ==
    /\ psel \in UNION { Flags(n) : n \in 0..MaxRows }
    /\ pending = FALSE
    /\ vsel \in SUBSET Rows(psel)
    /\ cursor = -1
    /\ model = [focus_changed |-> FALSE, focus |-> -1, selection_changed |-> FALSE]
    /\ blocked = FALSE
    /\ vcalls = << >>
    /\ vlast = NoOp
    /\ exists = FALSE
    /\ flen = 0
    /\ handle = NoHandle
    /\ oflags = {}
    /\ pos = 0
    /\ pc = "idle"
    /\ xf = NoXfer
    /\ oscalls = << >>
    /\ last = NoOp
    /\ prev = NoOp

NextView ==
    \/ treeview_get_focus
    \/ treeview_set_focus
    \/ treeview_set_focus_now
    \/ treeview_refresh_selection
    \/ treeview_refresh_selection_now
    \/ playlist_set_selected
    \/ playlist_set_selected_list
    \/ playlist_select_range
    \/ playlist_count_selected_in_range
    \/ playlist_scroll_to_row
    \/ update_pending_begins
    \/ ui_playlist_model_update_settled

SpecView == InitView /\ [][NextView]_vars

(* ================================================================ claims *)

\* the flag table of the documentation
C1_Table(first, plus) ==
    CASE first = "r" /\ ~plus -> {"O_RDONLY"}
      [] first = "r" /\ plus -> {"O_RDWR"}
      [] first = "w" /\ ~plus -> {"O_WRONLY", "O_CREAT", "O_TRUNC"}
      [] first = "w" /\ plus -> {"O_RDWR", "O_CREAT", "O_TRUNC"}
      [] first = "a" /\ ~plus -> {"O_WRONLY", "O_CREAT", "O_APPEND"}
      [] first = "a" /\ plus -> {"O_RDWR", "O_CREAT", "O_APPEND"}

OpenCalls == {i \in 1..Len(oscalls) : oscalls[i].call = "open"}

\* C1: after unix_fopen with a mode starting with r, w or a, the one open
\* call made (none when the URI names no file) carries exactly the flag set
\* of the table, '+' anywhere selecting the read-write variant; with any
\* other first character the result is NULL and open was not called.
C1_OpenFlags ==
    last.op = "fopen" =>
        IF FirstChar(last.mode) \in {"r", "w", "a"}
        THEN /\ \A i \in OpenCalls :
                  /\ i = 1
                  /\ oscalls[i].flags = C1_Table(FirstChar(last.mode),
                                                 "+" \in Range(last.mode))
             /\ (OpenCalls = {} <=> g_filename_from_uri(last.uri) = NULL)
        ELSE last.ret = NULL /\ OpenCalls = {}

C1_Witness ==
    /\ last.op = "fopen"
    /\ last.mode = <<"r", "b", "+">>
    /\ last.ret # NULL
    /\ OpenCalls = {1}
    /\ oscalls[1].flags = {"O_RDWR"}

\* C2: when unix_fread or unix_fwrite returns, the result is the number of
\* bytes the OS transferred during the call divided by size, rounded down
\* (0 when size is 0), and it does not exceed nitems.
C2_WholeElements ==
    (pc = "idle" /\ last.op \in {"fread", "fwrite"}) =>
        /\ last.ret = (IF last.size > 0 THEN last.os \div last.size ELSE 0)
        /\ last.ret <= last.nitems

C2_Witness ==
    /\ pc = "idle"
    /\ last.op = "fread"
    /\ last.size = 1
    /\ last.nitems = 3
    /\ last.os = 2
    /\ last.ret = 2

AllCallsSucceeded == \A i \in 1..Len(oscalls) : oscalls[i].ret # -1

C4_EofIffNoData ==
    last.op = "feof" => (last.ret <=> last.atend)

\* C5: the file position after unix_feof is the position before it.
C5_FeofKeepsPosition ==
    last.op = "feof" => pos = last.pos0

\* C6: after treeview_refresh_selection_now and after treeview_set_focus_now,
\* row i of the playlist is in the view's selection exactly when the
\* playlist's selected flag of entry i is set.
C6_SelectionMatchesPlaylist ==
    vlast.op \in {"refresh_selection_now", "set_focus_now"} =>
        \A i \in Rows(psel) : (i \in vsel <=> psel[i + 1])

C6_Witness ==
    /\ vlast.op = "set_focus_now"
    /\ vlast.focus \in Rows(psel)
    /\ cursor = vlast.focus
    /\ ~psel[vlast.focus + 1]
    /\ vsel # {}

\* C7: unix_fclose calls fsync, then close, on every path; the descriptor is
\* closed afterwards; the result is EOF when fsync failed and 0 otherwise.
C7_SyncThenClose ==
    last.op = "fclose" =>
        /\ Len(oscalls) = 2
        /\ oscalls[1].call = "fsync"
        /\ oscalls[2].call = "close"
        /\ handle = NoHandle
        /\ last.ret = (IF oscalls[1].ret = -1 THEN EOF ELSE 0)

C7_Witness ==
    /\ last.op = "fclose"
    /\ Len(oscalls) = 2
    /\ oscalls[1].ret = -1
    /\ last.ret = EOF
    /\ handle = NoHandle

\* C8: a transfer loop is left as soon as the byte count is reached, the OS
\* transfers zero bytes or the OS call fails: while unix_fread or unix_fwrite
\* is still in its loop after an OS call, that call transferred at least one
\* byte and the count is not yet reached.
C8_LoopStops ==
    (pc # "idle" /\ xf.n > 0) => (xf.r > 0 /\ xf.total < xf.goal)

BlockCalls(calls) == {i \in 1..Len(calls) : calls[i].call = "block_updates"}

\* the calls of an immediate apply: updates blocked first, unblocked last,
\* and not in between
C9_Bracketed(calls) ==
    /\ Len(calls) >= 2
    /\ BlockCalls(calls) = {1, Len(calls)}
    /\ calls[1].block = TRUE
    /\ calls[Len(calls)].block = FALSE

C9_Synced == \A i \in Rows(psel) : (i \in vsel' <=> psel[i + 1])

\* C9: treeview_set_focus and treeview_refresh_selection, called while an
\* update is pending, only set focus_changed and focus, respectively
\* selection_changed, and leave cursor and selection alone; called with no
\* update pending they leave the model's flags alone, apply the change
\* between a block and an unblock of the widget's updates, and return with
\* the updates not blocked.
C9_DeferOrApply ==
    [][ /\ vlast'.op = "set_focus" =>
             IF pending
             THEN /\ model' = [model EXCEPT !.focus_changed = TRUE,
                                            !.focus = vlast'.focus]
                  /\ cursor' = cursor /\ vsel' = vsel
                  /\ vcalls' = << >> /\ blocked' = blocked
             ELSE /\ model' = model
                  /\ C9_Bracketed(vcalls')
                  /\ ~blocked'
                  /\ C9_Synced
                  /\ (vlast'.focus \in Rows(psel) => cursor' = vlast'.focus)
        /\ vlast'.op = "refresh_selection" =>
             IF pending
             THEN /\ model' = [model EXCEPT !.selection_changed = TRUE]
                  /\ cursor' = cursor /\ vsel' = vsel
                  /\ vcalls' = << >> /\ blocked' = blocked
             ELSE /\ model' = model
                  /\ C9_Bracketed(vcalls')
                  /\ ~blocked'
                  /\ C9_Synced
                  /\ cursor' = cursor
      ]_vars

C9_Witness ==
    /\ vlast.op = "set_focus"
    /\ ~vlast.pending
    /\ vlast.focus \in Rows(psel)
    /\ cursor = vlast.focus
    /\ Len(vcalls) > 2
    /\ vcalls[Len(vcalls)] = [call |-> "block_updates", block |-> FALSE]
    /\ ~blocked

\* C10: whenever unix_fsize returns, the file position is the position at
\* the time of the call.
C10_FsizeKeepsPosition ==
    last.op = "fsize" => pos = last.pos0

====
